---- MODULE Spec2Model ----
(***************************************************************************)
(* GIZA token dashboard (src/giza_dashboard.py): the data manager's fetch  *)
(* with fallback (get_token_metrics, get_price_history), the ratio         *)
(* calculator (calculate_metrics_ratios) and the refresh flow of main.     *)
(*                                                                         *)
(* Representation.  Python and JSON values are tagged records, because the *)
(* code is dynamically typed and passes JSON values through unchanged:     *)
(*   Num(n)  a number      Null  None / JSON null                          *)
(*   Obj(f)  a dict        Arr(s) a list                                   *)
(* Decimal quantities are integers in a fixed unit per field: prices in    *)
(* 1e-5 USD, percent changes in 1e-2 percent, money in USD, supplies in    *)
(* tokens.  Float arithmetic is modelled by exact rationals (Float).       *)
(***************************************************************************)
EXTENDS Integers, Sequences, FiniteSets, TLC

VARIABLES
    API_AVAILABLE,   \* module flag set by the import of requests (lines 13-18)
    cache,           \* GizaDataManager.cache
    cache_timeout,   \* GizaDataManager.cache_timeout
    now,             \* wall clock, seconds
    n_calls,         \* provider calls made on the current GizaDataManager
    call,            \* the last completed operation: its input and outcome
    pc,              \* position of main's refresh flow
    chart_period,    \* main: st.sidebar.selectbox("Chart Period", ...)
    token_metrics,   \* main: local token_metrics
    refresh_gets     \* HTTP GETs issued by the current refresh, per operation

vars == <<API_AVAILABLE, cache, cache_timeout, now, n_calls, call, pc,
          chart_period, token_metrics, refresh_gets>>

----------------------------------------------------------------------------
(* Bounds of the model *)

MaxLen == 2        \* longest upstream 'prices' / 'total_volumes' series
MaxVal == 1        \* largest field value of the ratio calculator's drawn inputs
MaxCalls == 2      \* direct provider calls made on one GizaDataManager
TickStep == 200    \* seconds the clock advances per Tick
MaxClock == 400    \* the clock stops here

----------------------------------------------------------------------------
(* Python / JSON values *)

Num(n) == [type |-> "number", val |-> n]
Null == [type |-> "null"]
Obj(f) == [type |-> "object", members |-> f]
Arr(s) == [type |-> "array", items |-> s]

EmptyDict == Obj([k \in {} |-> Null])

IsNum(v) == v.type = "number"
IsObj(v) == v.type = "object"

\* dict.get(key, default)
dict_get(d, key, default) ==
    IF key \in DOMAIN d.members THEN d.members[key] ELSE default

\* d with key removed / set
Without(d, key) == Obj([k \in DOMAIN d.members \ {key} |-> d.members[k]])
With(d, key, v) ==
    Obj([k \in DOMAIN d.members \cup {key} |-> IF k = key THEN v ELSE d.members[k]])

----------------------------------------------------------------------------
(* TokenMetrics (dataclass, no validation of its fields) *)

TokenMetrics(price, price_change_24h, price_change_7d, market_cap, volume_24h, circulating_supply, total_supply, fdv, ath, atl, rank) ==
    [price |-> price, price_change_24h |-> price_change_24h,
     price_change_7d |-> price_change_7d, market_cap |-> market_cap,
     volume_24h |-> volume_24h, circulating_supply |-> circulating_supply,
     total_supply |-> total_supply, fdv |-> fdv, ath |-> ath, atl |-> atl,
     rank |-> rank]

MetricFields == {"price", "price_change_24h", "price_change_7d", "market_cap",
                 "volume_24h", "circulating_supply", "total_supply", "fdv",
                 "ath", "atl", "rank"}

\* _get_demo_token_metrics: 0.172, -6.78 %, -5.10 %, ..., 0.4953, 0.03672, 1319
get_demo_token_metrics ==
    TokenMetrics(Num(17200), Num(0 - 678), Num(0 - 510), Num(17950000),
                 Num(2620000), Num(104412580), Num(1000000000), Num(172000000),
                 Num(49530), Num(3672), Num(1319))

----------------------------------------------------------------------------
(* The upstream HTTP API: what one requests.get can produce *)

\* requests.get raised (timeout, connection refused, ...)
ConnectionFailed ==
    [kind |-> "exception", status_code |-> 0, valid |-> FALSE, json |-> Null]

\* a response object: status code, whether response.json() parses, the document
Response(status_code, valid, json) ==
    [kind |-> "response", status_code |-> status_code, valid |-> valid,
     json |-> json]

\* {"usd": n}
Usd(n) == Obj([k \in {"usd"} |-> Num(n)])
\* {"eur": n}: a currency object without the 'usd' sub-key
Eur(n) == Obj([k \in {"eur"} |-> Num(n)])

\* keys of market_data the code reads through a 'usd' sub-key / directly
NestedKeys == {"current_price", "market_cap", "total_volume",
               "fully_diluted_valuation", "ath", "atl"}
FlatKeys == {"price_change_percentage_24h", "price_change_percentage_7d",
             "circulating_supply", "total_supply"}
ReadKeys == NestedKeys \cup FlatKeys
\* the upstream market_data object also carries market_cap_rank
MarketDataKeys == ReadKeys \cup {"market_cap_rank"}

\* the market_data object holding the values of profile p
MarketData(p) ==
    Obj([k \in MarketDataKeys |->
          CASE k = "current_price" -> Usd(p.price)
            [] k = "price_change_percentage_24h" -> Num(p.price_change_24h)
            [] k = "price_change_percentage_7d" -> Num(p.price_change_7d)
            [] k = "market_cap" -> Usd(p.market_cap)
            [] k = "total_volume" -> Usd(p.volume_24h)
            [] k = "circulating_supply" -> Num(p.circulating_supply)
            [] k = "total_supply" -> Num(p.total_supply)
            [] k = "fully_diluted_valuation" -> Usd(p.fdv)
            [] k = "ath" -> Usd(p.ath)
            [] k = "atl" -> Usd(p.atl)
            [] OTHER -> Num(p.rank)])

\* the /coins/giza document holding the values of profile p
Document(p) ==
    Obj([k \in {"market_cap_rank", "market_data"} |->
          IF k = "market_cap_rank" THEN Num(p.rank) ELSE MarketData(p)])

\* value profiles: the spec's scenario (price 0.1762, ath 0.49, market cap
\* 18.72M, FDV 176.2M) and one with every ratio denominator 0
ScenarioProfile ==
    [price |-> 17620, price_change_24h |-> 250, price_change_7d |-> 0 - 1200,
     market_cap |-> 18720000, volume_24h |-> 2000000,
     circulating_supply |-> 106000000, total_supply |-> 1000000000,
     fdv |-> 176200000, ath |-> 49000, atl |-> 3600, rank |-> 1300]
ZeroProfile ==
    [price |-> 5, price_change_24h |-> 0, price_change_7d |-> 0,
     market_cap |-> 0, volume_24h |-> 7, circulating_supply |-> 3,
     total_supply |-> 0, fdv |-> 0, ath |-> 0, atl |-> 0, rank |-> 1]
Profiles == {ScenarioProfile, ZeroProfile}

\* documents with every field present
ValidDocuments == {Document(p) : p \in Profiles}

\* documents a 200 response can carry: valid ones, and ones with a field
\* missing, null or without its 'usd' sub-key, or with no usable shape
TokenDocuments ==
    ValidDocuments
    \cup {With(Document(p), "market_data", Without(MarketData(p), k)) :
            p \in {ScenarioProfile}, k \in ReadKeys}
    \cup {With(Document(p), "market_data", With(MarketData(p), k, Null)) :
            p \in {ScenarioProfile}, k \in ReadKeys}
    \cup {With(Document(p), "market_data", With(MarketData(p), k, Eur(1))) :
            p \in {ScenarioProfile}, k \in NestedKeys}
    \cup {Without(Document(p), "market_cap_rank") : p \in Profiles}
    \cup {Without(Document(p), "market_data") : p \in Profiles}
    \cup {With(Document(p), "market_data", Null) : p \in Profiles}
    \cup {EmptyDict, Arr(<< >>)}

TokenResponses ==
    {ConnectionFailed, Response(200, FALSE, Null)}
    \cup {Response(200, TRUE, d) : d \in TokenDocuments}
    \cup {Response(s, TRUE, Document(ScenarioProfile)) : s \in {404, 500}}
    \cup {Response(s, FALSE, Null) : s \in {404, 500}}

----------------------------------------------------------------------------
(* GizaDataManager.get_token_metrics *)

\* the outcome of a block of code: the exception it raised (or "none"), the
\* value it returned, the st.warning messages it emitted
Returned(ret, warnings) == [exc |-> "none", ret |-> ret, warnings |-> warnings]
Raised(exc) == [exc |-> exc, ret |-> Null, warnings |-> << >>]

\* market_data.get(key, {}).get('usd', default), given that the inner value
\* is a dict
usd_of(market_data, key, default) ==
    dict_get(dict_get(market_data, key, EmptyDict), "usd", default)

\* mutant: ath and atl read from each other's key
metrics_of_swapped(data, market_data) ==
    TokenMetrics(
        usd_of(market_data, "current_price", Num(17200)),
        dict_get(market_data, "price_change_percentage_24h", Num(0 - 678)),
        dict_get(market_data, "price_change_percentage_7d", Num(0 - 510)),
        usd_of(market_data, "market_cap", Num(17950000)),
        usd_of(market_data, "total_volume", Num(2620000)),
        dict_get(market_data, "circulating_supply", Num(104412580)),
        dict_get(market_data, "total_supply", Num(1000000000)),
        usd_of(market_data, "fully_diluted_valuation", Num(172000000)),
        usd_of(market_data, "atl", Num(49530)),
        usd_of(market_data, "ath", Num(3672)),
        dict_get(data, "market_cap_rank", Num(1319)))

\* lines 71-83: the TokenMetrics built from data and market_data
metrics_of(data, market_data) ==
    TokenMetrics(
        usd_of(market_data, "current_price", Num(17200)),
        dict_get(market_data, "price_change_percentage_24h", Num(0 - 678)),
        dict_get(market_data, "price_change_percentage_7d", Num(0 - 510)),
        usd_of(market_data, "market_cap", Num(17950000)),
        usd_of(market_data, "total_volume", Num(2620000)),
        dict_get(market_data, "circulating_supply", Num(104412580)),
        dict_get(market_data, "total_supply", Num(1000000000)),
        usd_of(market_data, "fully_diluted_valuation", Num(172000000)),
        usd_of(market_data, "ath", Num(49530)),
        usd_of(market_data, "atl", Num(3672)),
        dict_get(data, "market_cap_rank", Num(1319)))

\* lines 68-83: parse a 200 response
parse_token_metrics(resp) ==
    IF ~resp.valid THEN Raised("JSONDecodeError")
    ELSE IF ~IsObj(resp.json) THEN Raised("AttributeError")
    ELSE LET data == resp.json
             market_data == dict_get(data, "market_data", EmptyDict)
         IN  IF ~IsObj(market_data) THEN Raised("AttributeError")
             ELSE IF \E k \in NestedKeys :
                        ~IsObj(dict_get(market_data, k, EmptyDict))
                  THEN Raised("AttributeError")
             ELSE Returned(metrics_of(data, market_data), << >>)

\* mutant: the status code is not checked before the body is parsed
try_get_token_metrics_unchecked(resp) ==
    IF resp.kind = "exception" THEN Raised("RequestException")
    ELSE parse_token_metrics(resp)

\* lines 61-83: the body of the try block
try_get_token_metrics(resp) ==
    IF resp.kind = "exception" THEN Raised("RequestException")
    ELSE IF resp.status_code # 200
         THEN Returned(get_demo_token_metrics, <<"request_failed">>)
    ELSE parse_token_metrics(resp)

\* lines 84-86: except Exception as e
except_get_token_metrics(body) ==
    IF body.exc = "none" THEN body
    ELSE Returned(get_demo_token_metrics, <<"api_error">>)

\* mutant: a request that raised is sent a second time before falling back
get_token_metrics_retry(api_available, resp) ==
    IF ~api_available
    THEN [exc |-> "none", ret |-> get_demo_token_metrics, warnings |-> << >>,
          gets |-> 0]
    ELSE LET first == try_get_token_metrics(resp)
             r == except_get_token_metrics(first)
         IN  [exc |-> r.exc, ret |-> r.ret, warnings |-> r.warnings,
              gets |-> IF first.exc = "RequestException" THEN 2 ELSE 1]

\* lines 55-86; gets is the number of requests.get calls made
get_token_metrics(api_available, resp) ==
    IF ~api_available
    THEN [exc |-> "none", ret |-> get_demo_token_metrics, warnings |-> << >>,
          gets |-> 0]
    ELSE LET r == except_get_token_metrics(try_get_token_metrics(resp))
         IN  [exc |-> r.exc, ret |-> r.ret, warnings |-> r.warnings, gets |-> 1]

----------------------------------------------------------------------------
(* pandas values: Timestamp, columns, DataFrame *)

\* a pandas Timestamp: whole days since the epoch and milliseconds into the day
Timestamp(day, ms) == [type |-> "timestamp", day |-> day, ms |-> ms]

\* pd.to_datetime(n, unit='ms') of an integer count of milliseconds
to_datetime(n) == Timestamp(n \div 86400000, n % 86400000)

\* a < b on Timestamps
ts_less(a, b) == a.day < b.day \/ (a.day = b.day /\ a.ms < b.ms)

\* a column holding the values of a sequence
ListColumn(s) == [kind |-> "list", n |-> Len(s), items |-> s]
\* pd.date_range(start, end, freq='H'): n hourly Timestamps from start on
DateRange(start, n) == [kind |-> "date_range", n |-> n, start |-> start]
\* n values computed from the draws of np.random after seed(42); the values
\* themselves are not modelled, only which stream they come from
SeededColumn(name, n) == [kind |-> "seeded", n |-> n, stream |-> name]

DataFrame(timestamp, price, volume) ==
    [type |-> "DataFrame", timestamp |-> timestamp, price |-> price,
     volume |-> volume]

\* len(df)
df_len(df) == df.timestamp.n

\* the i-th Timestamp of a date_range
date_at(col, i) ==
    LET hours == i - 1
        ms == col.start.ms + (hours % 24) * 3600000
    IN  Timestamp(col.start.day + hours \div 24 + ms \div 86400000,
                  ms % 86400000)

\* the i-th value of a timestamp column
ts_at(col, i) == IF col.kind = "list" THEN col.items[i] ELSE date_at(col, i)

----------------------------------------------------------------------------
(* GizaDataManager._get_demo_price_history *)

\* mutant: the fallback is an empty table
get_demo_price_history_empty(days, t) ==
    DataFrame(ListColumn(<< >>), ListColumn(<< >>), ListColumn(<< >>))

\* lines 128-149: end_date = now, start_date = end_date - days, hourly dates
\* from start to end inclusive (24 * days + 1 of them when days >= 0)
get_demo_price_history(days, t) ==
    LET n == IF days >= 0 THEN 24 * days + 1 ELSE 0
    IN  DataFrame(DateRange(Timestamp(0 - days, t * 1000), n),
                  SeededColumn("price", n), SeededColumn("volume", n))

----------------------------------------------------------------------------
(* The market_chart endpoint *)

\* one [timestamp_ms, price] pair, at one of two instants
PricePairs == {Arr(<<Num(t), Num(7)>>) : t \in {0, 1}}
\* the 'prices' series: every order, with and without duplicate timestamps
PriceSeries == UNION {[1..n -> PricePairs] : n \in 0..MaxLen}
\* a series with a row of three entries
BadPriceSeries == <<Arr(<<Num(0), Num(7), Num(9)>>)>>

\* the 'total_volumes' series of length n
VolumeSeriesOf(n) == [i \in 1..n |-> Arr(<<Num(i - 1), Num(1000 * i)>>)]
VolumeSeries == {VolumeSeriesOf(n) : n \in 0..MaxLen}
\* a series with a row of one entry
BadVolumeSeries == <<Arr(<<Num(0)>>)>>

ChartDocument(prices, total_volumes) ==
    Obj([k \in {"prices", "total_volumes"} |->
          IF k = "prices" THEN Arr(prices) ELSE Arr(total_volumes)])

HistoryDocuments ==
    {ChartDocument(p, v) : p \in PriceSeries \cup {BadPriceSeries},
                           v \in VolumeSeries \cup {BadVolumeSeries}}
    \cup {Without(ChartDocument(<< >>, << >>), k) :
            k \in {"prices", "total_volumes"}}
    \cup {Arr(<< >>)}

HistoryResponses ==
    {ConnectionFailed, Response(200, FALSE, Null)}
    \cup {Response(200, TRUE, d) : d \in HistoryDocuments}
    \cup {Response(s, TRUE, ChartDocument(<< >>, << >>)) : s \in {404, 500}}
    \cup {Response(s, FALSE, Null) : s \in {404, 500}}

----------------------------------------------------------------------------
(* GizaDataManager.get_price_history *)

\* mutant: rows and volumes are paired up to the shorter series, as zip does
frame_of_zip(prices, total_volumes) ==
    LET n == IF Len(prices) < Len(total_volumes)
             THEN Len(prices) ELSE Len(total_volumes)
    IN  IF \E i \in 1..Len(prices) : Len(prices[i].items) # 2
        THEN Raised("ValueError")
        ELSE IF \E i \in 1..Len(total_volumes) : Len(total_volumes[i].items) < 2
        THEN Raised("IndexError")
        ELSE Returned(
               DataFrame(
                 ListColumn([i \in 1..n |-> to_datetime(prices[i].items[1].val)]),
                 ListColumn([i \in 1..n |-> prices[i].items[2]]),
                 ListColumn([i \in 1..n |-> total_volumes[i].items[2]])),
               << >>)

\* lines 119-123, given data['prices'] and data['total_volumes'] (lists)
frame_of(prices, total_volumes) ==
    IF \E i \in 1..Len(prices) : Len(prices[i].items) # 2
    THEN Raised("ValueError")                \* rows do not fit two columns
    ELSE IF \E i \in 1..Len(total_volumes) : Len(total_volumes[i].items) < 2
    THEN Raised("IndexError")                \* v[1]
    ELSE IF Len(total_volumes) # Len(prices)
    THEN Raised("ValueError")                \* column length mismatch
    ELSE Returned(
           DataFrame(
             ListColumn([i \in 1..Len(prices) |->
                           to_datetime(prices[i].items[1].val)]),
             ListColumn([i \in 1..Len(prices) |-> prices[i].items[2]]),
             ListColumn([i \in 1..Len(total_volumes) |->
                           total_volumes[i].items[2]])),
           << >>)

\* lines 117-123: parse a 200 response
parse_price_history(resp) ==
    IF ~resp.valid THEN Raised("JSONDecodeError")
    ELSE IF ~IsObj(resp.json) THEN Raised("TypeError")
    ELSE IF "prices" \notin DOMAIN resp.json.members THEN Raised("KeyError")
    ELSE IF "total_volumes" \notin DOMAIN resp.json.members
    THEN Raised("KeyError")
    ELSE frame_of(resp.json.members["prices"].items,
                  resp.json.members["total_volumes"].items)

\* lines 110-123: the body of the try block
try_get_price_history(days, resp, t) ==
    IF resp.kind = "exception" THEN Raised("RequestException")
    ELSE IF resp.status_code # 200
         THEN Returned(get_demo_price_history(days, t), << >>)
    ELSE parse_price_history(resp)

\* mutant: no except clause, the exception reaches the caller
except_get_price_history_absent(body, days, t) == body

\* lines 124-126: except Exception as e
except_get_price_history(body, days, t) ==
    IF body.exc = "none" THEN body
    ELSE Returned(get_demo_price_history(days, t), <<"price_history_error">>)

\* lines 104-126; gets is the number of requests.get calls made
get_price_history(api_available, days, resp, t) ==
    IF ~api_available
    THEN [exc |-> "none", ret |-> get_demo_price_history(days, t),
          warnings |-> << >>, gets |-> 0]
    ELSE LET r == except_get_price_history(
                      try_get_price_history(days, resp, t), days, t)
         IN  [exc |-> r.exc, ret |-> r.ret, warnings |-> r.warnings, gets |-> 1]

----------------------------------------------------------------------------
(* Python arithmetic.  A float is an exact rational num/den in lowest terms *)
(* with den > 0; the int 0 of a guard's else branch is Num(0).             *)

RECURSIVE gcd(_, _)
gcd(a, b) == IF b = 0 THEN a ELSE gcd(b, a % b)

abs(n) == IF n < 0 THEN 0 - n ELSE n

\* num/den as a float value, den # 0
Float(num, den) ==
    LET g == gcd(abs(num), abs(den))
        sign == IF den < 0 THEN 0 - 1 ELSE 1
    IN  [type |-> "float", num |-> sign * (num \div g), den |-> sign * (den \div g)]

\* a / b on Python values
truediv(a, b) ==
    IF ~IsNum(a) \/ ~IsNum(b) THEN Raised("TypeError")
    ELSE IF b.val = 0 THEN Raised("ZeroDivisionError")
    ELSE Returned(Float(a.val, b.val), << >>)

\* x - k and x * k for a float x and an int k (k > 0 in mul)
float_sub(x, k) == Float(x.num - k * x.den, x.den)
float_mul(x, k) ==
    LET g == gcd(x.den, k) IN Float(x.num * (k \div g), x.den \div g)

\* v is the number zero
IsZero(v) ==
    \/ v.type = "number" /\ v.val = 0
    \/ v.type = "float" /\ v.num = 0

----------------------------------------------------------------------------
(* GizaDataManager.calculate_metrics_ratios, one operator per entry *)

\* line 190: (volume_24h / market_cap * 100) if market_cap > 0 else 0
volume_to_mcap(m) ==
    IF ~IsNum(m.market_cap) THEN Raised("TypeError")
    ELSE IF m.market_cap.val > 0
    THEN LET q == truediv(m.volume_24h, m.market_cap)
         IN  IF q.exc # "none" THEN q
             ELSE Returned(float_mul(q.ret, 100), << >>)
    ELSE Returned(Num(0), << >>)

\* mutant: the guard lets a total_supply of 0 through
circulating_ratio_unguarded(m) ==
    IF ~IsNum(m.total_supply) THEN Raised("TypeError")
    ELSE IF m.total_supply.val >= 0
    THEN LET q == truediv(m.circulating_supply, m.total_supply)
         IN  IF q.exc # "none" THEN q
             ELSE Returned(float_mul(q.ret, 100), << >>)
    ELSE Returned(Num(0), << >>)

\* line 191: (circulating_supply / total_supply * 100) if total_supply > 0 else 0
circulating_ratio(m) ==
    IF ~IsNum(m.total_supply) THEN Raised("TypeError")
    ELSE IF m.total_supply.val > 0
    THEN LET q == truediv(m.circulating_supply, m.total_supply)
         IN  IF q.exc # "none" THEN q
             ELSE Returned(float_mul(q.ret, 100), << >>)
    ELSE Returned(Num(0), << >>)

\* mutant: the fraction, not multiplied by 100
price_vs_ath_fraction(m) ==
    IF ~IsNum(m.ath) THEN Raised("TypeError")
    ELSE IF m.ath.val > 0
    THEN LET q == truediv(m.price, m.ath)
         IN  IF q.exc # "none" THEN q
             ELSE Returned(float_sub(q.ret, 1), << >>)
    ELSE Returned(Num(0), << >>)

\* line 192: ((price / ath - 1) * 100) if ath > 0 else 0
price_vs_ath(m) ==
    IF ~IsNum(m.ath) THEN Raised("TypeError")
    ELSE IF m.ath.val > 0
    THEN LET q == truediv(m.price, m.ath)
         IN  IF q.exc # "none" THEN q
             ELSE Returned(float_mul(float_sub(q.ret, 1), 100), << >>)
    ELSE Returned(Num(0), << >>)

\* line 193: ((price / atl - 1) * 100) if atl > 0 else 0
price_vs_atl(m) ==
    IF ~IsNum(m.atl) THEN Raised("TypeError")
    ELSE IF m.atl.val > 0
    THEN LET q == truediv(m.price, m.atl)
         IN  IF q.exc # "none" THEN q
             ELSE Returned(float_mul(float_sub(q.ret, 1), 100), << >>)
    ELSE Returned(Num(0), << >>)

\* truthiness of a Python value
truthy(v) ==
    CASE v.type = "number" -> v.val # 0
      [] v.type = "null" -> FALSE
      [] v.type = "object" -> DOMAIN v.members # {}
      [] v.type = "array" -> Len(v.items) > 0
      [] OTHER -> TRUE

\* line 194: market_cap / 1_000_000 if market_cap else 0
market_cap_millions(m) ==
    IF truthy(m.market_cap)
    THEN truediv(m.market_cap, Num(1000000))
    ELSE Returned(Num(0), << >>)

\* lines 178-195: the dict of ratios, or the first exception of its entries
calculate_metrics_ratios(metrics) ==
    IF metrics = Null
    THEN Returned([volume_to_mcap |-> Num(0), circulating_ratio |-> Num(0),
                   price_vs_ath |-> Num(0), price_vs_atl |-> Num(0),
                   market_cap_millions |-> Num(0)], << >>)
    ELSE LET a == volume_to_mcap(metrics)
             b == circulating_ratio(metrics)
             c == price_vs_ath(metrics)
             d == price_vs_atl(metrics)
             e == market_cap_millions(metrics)
         IN  IF a.exc # "none" THEN Raised(a.exc)
             ELSE IF b.exc # "none" THEN Raised(b.exc)
             ELSE IF c.exc # "none" THEN Raised(c.exc)
             ELSE IF d.exc # "none" THEN Raised(d.exc)
             ELSE IF e.exc # "none" THEN Raised(e.exc)
             ELSE Returned([volume_to_mcap |-> a.ret, circulating_ratio |-> b.ret,
                            price_vs_ath |-> c.ret, price_vs_atl |-> d.ret,
                            market_cap_millions |-> e.ret], << >>)

----------------------------------------------------------------------------
(* The state machine *)

\* no request was made
NoRequest == [kind |-> "none", status_code |-> 0, valid |-> FALSE, json |-> Null]

\* the record of a completed operation: what was called with what, when, the
\* HTTP outcome it met, and what came back (exception, value, warnings, GETs)
CallRecord(op, days, arg, resp, r, gets) ==
    [op |-> op, days |-> days, arg |-> arg, at |-> now, resp |-> resp,
     exc |-> r.exc, ret |-> r.ret, warnings |-> r.warnings, gets |-> gets]

NoCall ==
    [op |-> "none", days |-> 0, arg |-> Null, at |-> 0, resp |-> NoRequest,
     exc |-> "none", ret |-> Null, warnings |-> << >>, gets |-> 0]

\* line 344: st.sidebar.selectbox("Chart Period", [7, 30, 90], index=1)
ChartPeriods == {7, 30, 90}

NoGets == [get_token_metrics |-> 0, get_price_history |-> 0]

\* lines 50-53: GizaDataManager.__init__
NewManager ==
    /\ cache' = EmptyDict
    /\ cache_timeout' = 300
    /\ n_calls' = 0

Init ==
    /\ API_AVAILABLE \in BOOLEAN
    /\ cache = EmptyDict
    /\ cache_timeout = 300
    /\ now = 0
    /\ n_calls = 0
    /\ call = NoCall
    /\ pc = "idle"
    /\ chart_period = 30
    /\ token_metrics = Null
    /\ refresh_gets = NoGets

\* time passes between operations; a refresh, whose two requests time out
\* after 10 seconds each (lines 62, 112), does not span a tick
Tick ==
    /\ pc = "idle"
    /\ now + TickStep <= MaxClock
    /\ now' = now + TickStep
    /\ UNCHANGED <<API_AVAILABLE, cache, cache_timeout, n_calls, call, pc,
                   chart_period, token_metrics, refresh_gets>>

\* a caller constructs a GizaDataManager of its own
Construct ==
    /\ pc = "idle"
    /\ n_calls > 0
    /\ NewManager
    /\ UNCHANGED <<API_AVAILABLE, now, call, pc, chart_period, token_metrics,
                   refresh_gets>>

\* the HTTP outcomes a call can meet: none when requests is unavailable
Outcomes(responses) == IF API_AVAILABLE THEN responses ELSE {NoRequest}

\* get_token_metrics, called directly (pc = "idle") or by main (line 355)
GetTokenMetrics ==
    /\ pc \in {"idle", "fetch_metrics"}
    /\ pc = "idle" => n_calls < MaxCalls
    /\ \E resp \in Outcomes(TokenResponses) :
         LET r == get_token_metrics(API_AVAILABLE, resp)
         IN  /\ call' = CallRecord("get_token_metrics", 0, Null, resp, r, r.gets)
             /\ n_calls' = n_calls + 1
             /\ IF pc = "idle"
                THEN UNCHANGED <<pc, token_metrics, refresh_gets>>
                ELSE /\ pc' = IF r.exc = "none" THEN "fetch_history" ELSE "idle"
                     /\ token_metrics' = r.ret
                     /\ refresh_gets' =
                          [refresh_gets EXCEPT !.get_token_metrics = @ + r.gets]
    /\ UNCHANGED <<API_AVAILABLE, cache, cache_timeout, now, chart_period>>

\* get_price_history(days), called directly or by main (line 356)
GetPriceHistory ==
    /\ pc \in {"idle", "fetch_history"}
    /\ pc = "idle" => n_calls < MaxCalls
    /\ \E days \in (IF pc = "idle" THEN ChartPeriods ELSE {chart_period}),
          resp \in Outcomes(HistoryResponses) :
         LET r == get_price_history(API_AVAILABLE, days, resp, now)
         IN  /\ call' = CallRecord("get_price_history", days, Null, resp, r, r.gets)
             /\ n_calls' = n_calls + 1
             /\ IF pc = "idle"
                THEN UNCHANGED <<pc, refresh_gets>>
                ELSE /\ pc' = IF r.exc = "none" THEN "ratios" ELSE "idle"
                     /\ refresh_gets' =
                          [refresh_gets EXCEPT !.get_price_history = @ + r.gets]
    /\ UNCHANGED <<API_AVAILABLE, cache, cache_timeout, now, chart_period,
                   token_metrics>>

\* line 361: ratios = data_manager.calculate_metrics_ratios(token_metrics);
\* the rest of the refresh renders and the script ends, its locals with it
CalculateMetricsRatios ==
    /\ pc = "ratios"
    /\ call' = CallRecord("calculate_metrics_ratios", 0, token_metrics,
                          NoRequest, calculate_metrics_ratios(token_metrics), 0)
    /\ pc' = "idle"
    /\ token_metrics' = Null
    /\ chart_period' = 30
    /\ refresh_gets' = NoGets
    /\ UNCHANGED <<API_AVAILABLE, cache, cache_timeout, now, n_calls>>

\* lines 315-352: a run of main: a new data manager, the chart period chosen
\* in the sidebar, and a refresh when the button was pressed or auto-refresh
\* is on (its default when requests is available)
Main ==
    /\ pc = "idle"
    /\ NewManager
    /\ \E period \in ChartPeriods, refresh \in BOOLEAN :
         /\ chart_period' = period
         /\ IF refresh
            THEN /\ pc' = "fetch_metrics"
                 /\ refresh_gets' = NoGets
            ELSE UNCHANGED <<pc, refresh_gets>>
    /\ UNCHANGED <<API_AVAILABLE, now, call, token_metrics>>

Next ==
    \/ Tick
    \/ Construct
    \/ Main
    \/ GetTokenMetrics
    \/ GetPriceHistory
    \/ CalculateMetricsRatios

Spec == Init /\ [][Next]_vars

----------------------------------------------------------------------------
(* The ratio calculator on drawn inputs *)

RatioValues == (0 - 1)..MaxVal

\* every TokenMetrics over RatioValues in the fields the ratios read
DrawnMetrics ==
    {TokenMetrics(Num(price), Num(0), Num(0), Num(market_cap), Num(volume_24h),
                  Num(circulating_supply), Num(total_supply), Num(0), Num(ath),
                  Num(atl), Num(1)) :
       price \in RatioValues, market_cap \in RatioValues,
       volume_24h \in RatioValues, circulating_supply \in RatioValues,
       total_supply \in RatioValues, ath \in RatioValues, atl \in RatioValues}

\* the spec's scenario, price 0.1762 and ath 0.49 in units of 1e-4 USD
ScenarioMetrics ==
    TokenMetrics(Num(1762), Num(0), Num(0), Num(3), Num(2), Num(1), Num(4),
                 Num(0), Num(4900), Num(360), Num(1))

RatioInputs == DrawnMetrics \cup {ScenarioMetrics}

\* main has fetched token_metrics and is about to compute the ratios
RatioInit ==
    /\ API_AVAILABLE = TRUE
    /\ cache = EmptyDict
    /\ cache_timeout = 300
    /\ now = 0
    /\ n_calls = 0
    /\ call = NoCall
    /\ pc = "ratios"
    /\ chart_period = 30
    /\ token_metrics \in RatioInputs
    /\ refresh_gets = NoGets

RatioNext == CalculateMetricsRatios

RatioSpec == RatioInit /\ [][RatioNext]_vars

----------------------------------------------------------------------------
(* Vocabulary of the properties *)

IsProviderCall == call.op \in {"get_token_metrics", "get_price_history"}
IsMetricsCall == call.op = "get_token_metrics"
IsHistoryCall == call.op = "get_price_history"
IsRatiosCall == call.op = "calculate_metrics_ratios"

\* the three kinds of failure of spec section 7, for either endpoint
NetworkError(resp) == resp.kind = "exception"
ProtocolError(resp) == resp.kind = "response" /\ resp.status_code # 200
Parsed(resp) ==
    resp.kind = "response" /\ resp.status_code = 200 /\ resp.valid

\* where the JSON document holds the value of a TokenMetrics field: the key
\* of market_data (under a 'usd' sub-key or not), or the top-level rank
KeyOf(f) ==
    CASE f = "price" -> "current_price"
      [] f = "price_change_24h" -> "price_change_percentage_24h"
      [] f = "price_change_7d" -> "price_change_percentage_7d"
      [] f = "market_cap" -> "market_cap"
      [] f = "volume_24h" -> "total_volume"
      [] f = "circulating_supply" -> "circulating_supply"
      [] f = "total_supply" -> "total_supply"
      [] f = "fdv" -> "fully_diluted_valuation"
      [] f = "ath" -> "ath"
      [] f = "atl" -> "atl"
      [] OTHER -> "market_cap_rank"

Has(d, key) == IsObj(d) /\ key \in DOMAIN d.members

\* the document has an object market_data whose currency entries, where
\* present, are objects: every read of the code finds a value or a default
Readable(d) ==
    /\ IsObj(d)
    /\ Has(d, "market_data") => IsObj(d.members["market_data"])
    /\ \A k \in NestedKeys :
         (Has(d, "market_data") /\ Has(d.members["market_data"], k))
            => IsObj(d.members["market_data"].members[k])

\* the document supplies field f of market_data (f is not the rank)
SuppliesInMarketData(d, f) ==
    /\ Has(d, "market_data")
    /\ Has(d.members["market_data"], KeyOf(f))
    /\ KeyOf(f) \in NestedKeys
          => Has(d.members["market_data"].members[KeyOf(f)], "usd")

\* the value market_data holds for f
MarketDataValue(d, f) ==
    LET v == d.members["market_data"].members[KeyOf(f)]
    IN  IF KeyOf(f) \in NestedKeys THEN v.members["usd"] ELSE v

\* the document supplies f where the code reads it
Supplies(d, f) ==
    IF f = "rank" THEN Has(d, "market_cap_rank") ELSE SuppliesInMarketData(d, f)
SuppliedValue(d, f) ==
    IF f = "rank" THEN d.members["market_cap_rank"] ELSE MarketDataValue(d, f)

\* all market_data fields are present, as numbers
MarketDataComplete(d) ==
    /\ Readable(d)
    /\ \A f \in MetricFields :
         /\ SuppliesInMarketData(d, f)
         /\ IsNum(MarketDataValue(d, f))

\* a 200 response whose document lacks or malforms a field the code reads
SchemaError(resp) ==
    /\ resp.kind = "response" /\ resp.status_code = 200
    /\ \/ ~resp.valid
       \/ ~Readable(resp.json)
       \/ \E f \in MetricFields :
             ~(Supplies(resp.json, f) /\ IsNum(SuppliedValue(resp.json, f)))

\* a 200 response the code cannot read at all
Unreadable(resp) ==
    /\ resp.kind = "response" /\ resp.status_code = 200
    /\ ~resp.valid \/ ~Readable(resp.json)

----------------------------------------------------------------------------
(* C1 *)

\* C1 as stated: on a NetworkError, a ProtocolError or a SchemaError (a
\* payload with only some fields missing included) get_token_metrics returns
\* the demo TokenMetrics in all eleven fields and does not throw.
C1_DemoOnEveryFailure ==
    (IsMetricsCall /\ API_AVAILABLE
       /\ (NetworkError(call.resp) \/ ProtocolError(call.resp)
             \/ SchemaError(call.resp)))
    => (call.exc = "none" /\ call.ret = get_demo_token_metrics)

\* C1 amended: get_token_metrics never throws; on a NetworkError, a
\* ProtocolError or an unreadable 200 response it returns the demo
\* TokenMetrics; on a readable 200 response each field the document supplies
\* keeps the document's value and each field it does not supply takes its demo
\* value, one by one.
C1_FallbackPerField ==
    (IsMetricsCall /\ API_AVAILABLE)
    => /\ call.exc = "none"
       /\ (NetworkError(call.resp) \/ ProtocolError(call.resp)
             \/ Unreadable(call.resp))
            => call.ret = get_demo_token_metrics
       /\ (Parsed(call.resp) /\ Readable(call.resp.json))
            => \A f \in MetricFields :
                 call.ret[f] = IF Supplies(call.resp.json, f)
                               THEN SuppliedValue(call.resp.json, f)
                               ELSE get_demo_token_metrics[f]

\* a payload with one field missing came back as a mix of demo and live values
C1_Witness ==
    /\ IsMetricsCall /\ API_AVAILABLE
    /\ Parsed(call.resp) /\ Readable(call.resp.json)
    /\ ~Supplies(call.resp.json, "ath")
    /\ call.ret.ath = get_demo_token_metrics.ath
    /\ call.ret.price = Num(ScenarioProfile.price)
    /\ call.ret # get_demo_token_metrics

----------------------------------------------------------------------------
(* C2 *)

\* C2 as stated: a call made on the same GizaDataManager within cache_timeout
\* of the previous call of the same operation and parameters issues no HTTP
\* GET and returns what that call returned.
C2_SecondCallWithinTTLIsCached ==
    [][(/\ API_AVAILABLE
        /\ n_calls >= 1 /\ n_calls' = n_calls + 1
        /\ IsProviderCall
        /\ call'.op = call.op /\ call'.days = call.days
        /\ call'.at - call.at <= cache_timeout)
       => (call'.gets = 0 /\ call'.ret = call.ret)]_vars

----------------------------------------------------------------------------
(* C3 *)

IsTokenMetrics(v) == DOMAIN v = MetricFields
IsDataFrame(v) == "type" \in DOMAIN v /\ v.type = "DataFrame"

\* C3: whatever the HTTP call does (exception, any status, any payload shape)
\* and whether or not requests is available, get_token_metrics returns a
\* TokenMetrics and get_price_history returns a DataFrame; neither raises.
C3_ProviderIsTotal ==
    /\ IsProviderCall => call.exc = "none"
    /\ IsMetricsCall => IsTokenMetrics(call.ret)
    /\ IsHistoryCall => IsDataFrame(call.ret)

\* a second call on the same manager met an unparseable 200 response and
\* still returned a table
C3_Witness ==
    /\ IsHistoryCall /\ API_AVAILABLE /\ n_calls = 2
    /\ call.resp.kind = "response" /\ call.resp.status_code = 200
    /\ ~call.resp.valid
    /\ call.exc = "none" /\ IsDataFrame(call.ret)

----------------------------------------------------------------------------
(* C4 *)

\* C4: calculate_metrics_ratios returns exactly 0 for volume_to_mcap when
\* market_cap is 0, for circulating_ratio when total_supply is 0, for
\* price_vs_ath when ath is 0 and for price_vs_atl when atl is 0, whatever the
\* other fields are, and never raises a division error.
C4_ZeroDenominatorGivesZero ==
    IsRatiosCall
    => /\ call.exc = "none"
       /\ call.arg.market_cap.val = 0 => IsZero(call.ret.volume_to_mcap)
       /\ call.arg.total_supply.val = 0 => IsZero(call.ret.circulating_ratio)
       /\ call.arg.ath.val = 0 => IsZero(call.ret.price_vs_ath)
       /\ call.arg.atl.val = 0 => IsZero(call.ret.price_vs_atl)

\* one denominator is 0 and every other field read is not
C4_Witness ==
    /\ IsRatiosCall
    /\ call.arg.total_supply.val = 0
    /\ call.arg.circulating_supply.val # 0
    /\ call.arg.market_cap.val # 0 /\ call.arg.ath.val # 0
    /\ call.arg.atl.val # 0 /\ call.arg.price.val # 0
    /\ call.exc = "none"
    /\ IsZero(call.ret.circulating_ratio)
    /\ ~IsZero(call.ret.volume_to_mcap)

----------------------------------------------------------------------------
(* C5 *)

\* C5 as stated: for a 200 response with all market_data fields present
\* (market_cap_rank among them) every field of the returned TokenMetrics
\* equals the value market_data holds for it.
C5_RoundTripFromMarketData ==
    (IsMetricsCall /\ API_AVAILABLE /\ Parsed(call.resp)
       /\ MarketDataComplete(call.resp.json))
    => \A f \in MetricFields :
         call.ret[f] = MarketDataValue(call.resp.json, f)

\* C5 amended: for a 200 response with all market_data fields present, the
\* ten fields other than rank equal the values market_data holds; rank equals
\* the document's top-level market_cap_rank, and is 1319 when the document has
\* none, whatever market_data.market_cap_rank is.
C5_RoundTripRankFromTopLevel ==
    (IsMetricsCall /\ API_AVAILABLE /\ Parsed(call.resp)
       /\ MarketDataComplete(call.resp.json))
    => /\ \A f \in MetricFields \ {"rank"} :
            call.ret[f] = MarketDataValue(call.resp.json, f)
       /\ call.ret.rank = IF Has(call.resp.json, "market_cap_rank")
                          THEN call.resp.json.members["market_cap_rank"]
                          ELSE Num(1319)

\* a complete document with values unlike the defaults came back unchanged
C5_Witness ==
    /\ IsMetricsCall /\ API_AVAILABLE /\ Parsed(call.resp)
    /\ call.resp.json = Document(ZeroProfile)
    /\ \A f \in MetricFields : call.ret[f] = Num(ZeroProfile[f])

----------------------------------------------------------------------------
(* C6 *)

\* a 200 response whose document has both series, each row of the right shape
SeriesWellFormed(resp) ==
    /\ Parsed(resp)
    /\ Has(resp.json, "prices") /\ Has(resp.json, "total_volumes")
    /\ \A i \in 1..Len(resp.json.members["prices"].items) :
         Len(resp.json.members["prices"].items[i].items) = 2
    /\ \A i \in 1..Len(resp.json.members["total_volumes"].items) :
         Len(resp.json.members["total_volumes"].items[i].items) >= 2

UpstreamPrices(resp) == resp.json.members["prices"].items
UpstreamVolumes(resp) == resp.json.members["total_volumes"].items

\* the timestamps of a table / of the upstream series strictly increase
StrictlyIncreasing(col) ==
    \A i \in 1..(col.n - 1) : ts_less(ts_at(col, i), ts_at(col, i + 1))
UpstreamIncreasing(prices) ==
    \A i \in 1..(Len(prices) - 1) :
        prices[i].items[1].val < prices[i + 1].items[1].val

\* milliseconds since the epoch of a Timestamp
epoch_ms(ts) == ts.day * 86400000 + ts.ms

----------------------------------------------------------------------------
(* C7 *)

\* a 200 response get_price_history cannot turn into a table
HistorySchemaError(resp) ==
    /\ resp.kind = "response" /\ resp.status_code = 200
    /\ \/ ~SeriesWellFormed(resp)
       \/ Len(UpstreamPrices(resp)) # Len(UpstreamVolumes(resp))

\* the call met a failure: a network exception, a non-200 status, or a
\* payload the operation cannot read
Failed ==
    /\ IsProviderCall /\ API_AVAILABLE
    /\ \/ NetworkError(call.resp)
       \/ ProtocolError(call.resp)
       \/ IsMetricsCall /\ Unreadable(call.resp)
       \/ IsHistoryCall /\ HistorySchemaError(call.resp)

\* the call returned fallback data
ReturnedFallback ==
    \/ IsMetricsCall /\ call.ret = get_demo_token_metrics
    \/ IsHistoryCall /\ call.ret = get_demo_price_history(call.days, call.at)

\* C7 as stated: every call that met a failure (network exception, non-200
\* status, malformed payload) emitted a warning during the call, before its
\* fallback data was returned.
C7_WarningOnEveryFailure ==
    Failed => (ReturnedFallback /\ Len(call.warnings) >= 1)

----------------------------------------------------------------------------
(* C8 *)

----------------------------------------------------------------------------
(* C9 *)

\* C9: a call of get_token_metrics or get_price_history issues at most one
\* HTTP GET (none without requests); a GET that failed is not sent again and
\* the call returns the demo data; a refresh of main issues at most one GET
\* per operation, none without requests.
C9_SingleAttempt ==
    /\ IsProviderCall
         => /\ call.gets <= 1
            /\ ~API_AVAILABLE => call.gets = 0
            /\ (API_AVAILABLE
                  /\ (NetworkError(call.resp) \/ ProtocolError(call.resp)))
                 => (call.gets = 1 /\ ReturnedFallback)
    /\ refresh_gets.get_token_metrics <= 1
    /\ refresh_gets.get_price_history <= 1
    /\ ~API_AVAILABLE => refresh_gets = NoGets

\* a refresh whose first request raised went on to its second request: one
\* GET each
C9_Witness ==
    /\ pc = "ratios" /\ API_AVAILABLE
    /\ token_metrics = get_demo_token_metrics
    /\ refresh_gets.get_token_metrics = 1
    /\ refresh_gets.get_price_history = 1
    /\ IsHistoryCall /\ NetworkError(call.resp) /\ call.gets = 1

----------------------------------------------------------------------------
(* C10 *)

\* numerator and denominator of a returned number
num_of(v) == IF v.type = "number" THEN v.val ELSE v.num
den_of(v) == IF v.type = "number" THEN 1 ELSE v.den

\* v = p / q, for q # 0
EqualsRational(v, p, q) == num_of(v) * q = p * den_of(v)

\* |v - p / q| <= 1 / (2 * q), for q > 0: v rounds to p / q
RoundsTo(v, p, q) ==
    abs(2 * q * num_of(v) - 2 * p * den_of(v)) <= den_of(v)

IsScenario == IsRatiosCall /\ call.arg = ScenarioMetrics

\* C10 as stated: for ath different from 0, price_vs_ath is the fraction
\* (price / ath) - 1; in the scenario price 0.1762, ath 0.49 it is -0.6404 to
\* four decimals.
C10_PriceVsAthIsFraction ==
    IsRatiosCall
    => /\ call.arg.ath.val # 0
            => EqualsRational(call.ret.price_vs_ath,
                              call.arg.price.val - call.arg.ath.val,
                              call.arg.ath.val)
       /\ IsScenario => RoundsTo(call.ret.price_vs_ath, 0 - 6404, 10000)

\* C10 amended: for ath greater than 0, price_vs_ath is the percentage
\* ((price / ath) - 1) * 100, and for ath of 0 or less it is 0; in the
\* scenario price 0.1762, ath 0.49 it is -64.04 to two decimals.
C10_PriceVsAthIsPercentage ==
    IsRatiosCall
    => /\ call.exc = "none"
       /\ call.arg.ath.val > 0
            => EqualsRational(call.ret.price_vs_ath,
                              100 * (call.arg.price.val - call.arg.ath.val),
                              call.arg.ath.val)
       /\ call.arg.ath.val <= 0 => IsZero(call.ret.price_vs_ath)
       /\ IsScenario => RoundsTo(call.ret.price_vs_ath, 0 - 6404, 100)

\* the scenario was computed, and came out below -64 percent
C10_Witness ==
    /\ IsScenario
    /\ call.exc = "none"
    /\ call.ret.price_vs_ath = Float(0 - 3138, 49)

====
